---- MODULE Spec2Model ----
(***************************************************************************)
(* Model of the "Process Data" pipeline of src/excel_cleaner.py: a table   *)
(* loaded from a spreadsheet is aggregated per SKU, cleaned, deduplicated, *)
(* ranked by SKU velocity and flagged with focus SKUs.                     *)
(*                                                                         *)
(* A table (pandas DataFrame) is a record                                  *)
(*    [cols |-> sequence of column names,                                  *)
(*     rows |-> sequence of [idx |-> index label, cell |-> name -> value]] *)
(* Python positions are zero-based, TLA+ sequences one-based: the code's   *)
(* columns[k] is cols[k + 1] here.                                         *)
(*                                                                         *)
(* Floats are IEEE doubles with round-to-nearest-even arithmetic, see the   *)
(* section on floats.                                                      *)
(***************************************************************************)
EXTENDS Integers, Sequences, FiniteSets, TLC

VARIABLES pc, df, processed_df, sku_column, quantity_column, total_quantity,
          warnings, error, summary

vars == <<pc, df, processed_df, sku_column, quantity_column, total_quantity,
          warnings, error, summary>>

(* ------------------------------ bounds -------------------------------- *)

\* Largest number of data rows of an uploaded sheet.
MaxRows == 3

\* Largest number of columns of an uploaded sheet (the smallest is 3).
MaxCols == 9

ColCounts == 3..MaxCols

\* An empty SKU cell, as read_excel delivers it.
NaN == "NaN"

SkuValues == {"A", "B", NaN}

\* Values of the quantity column (position 4).
QtyValues == {0, 100}

\* Values of the column at position 8.
RefValues == {0, 40}

(* ------------------------- program constants -------------------------- *)

HighUnitThreshold == 200

VolumeThreshold == 80

Percent == 100

NoColumnGWarning == "Column G not found. SKU Velocity calculation skipped."

\* str(e) of the IndexError that columns[4] raises on a sheet of n columns.
IndexErrorMessage(n) ==
  "Error processing the file: index 4 is out of bounds for axis 0 with size " \o ToString(n)

(* ------------------------------ floats -------------------------------- *)
(* A float64 is a record [kind, neg, m, e].  Kind "fin" is the number       *)
(* (-1)^neg * m * 2^e, where the significand m is 0 or has exactly          *)
(* MantissaBits bits; kinds "inf", "ninf" and "nan" are the IEEE values a   *)
(* division by zero produces.  m is a natural number written in limbs of    *)
(* LimbBits bits, least significant first, <<>> for 0.  Every operation     *)
(* rounds its exact result to the nearest float, ties to even.  Exponent    *)
(* overflow and subnormal numbers are out of reach of integer cells below   *)
(* 2^18 and are not represented.                                            *)

MantissaBits == 53

LimbBits == 13

Base == 2^LimbBits

RECURSIVE BitLenInt(_)
BitLenInt(n) == IF n = 0 THEN 0 ELSE 1 + BitLenInt(n \div 2)

RECURSIVE FromInt(_)
FromInt(n) == IF n = 0 THEN <<>> ELSE <<n % Base>> \o FromInt(n \div Base)

RECURSIVE Trim(_)
Trim(s) ==
  IF s = <<>> THEN <<>>
  ELSE IF s[Len(s)] = 0 THEN Trim(SubSeq(s, 1, Len(s) - 1))
  ELSE s

BitLen(s) == IF s = <<>> THEN 0 ELSE (Len(s) - 1) * LimbBits + BitLenInt(s[Len(s)])

IsOdd(s) == s # <<>> /\ s[1] % 2 = 1

RECURSIVE MulCarry(_, _, _)
MulCarry(s, k, c) ==
  IF s = <<>> THEN FromInt(c)
  ELSE <<(Head(s) * k + c) % Base>> \o MulCarry(Tail(s), k, (Head(s) * k + c) \div Base)

\* s * k, for 0 < k < 2^17
BigMulSmall(s, k) == MulCarry(s, k, 0)

RECURSIVE DivStep(_, _, _, _)
DivStep(s, d, i, r) ==
  IF i = 0 THEN [q |-> <<>>, r |-> r]
  ELSE LET cur  == r * Base + s[i]
           rest == DivStep(s, d, i - 1, cur % d)
       IN  [q |-> Append(rest.q, cur \div d), r |-> rest.r]

\* Quotient and remainder of s by d, for 0 < d < 2^18
BigDivSmall(s, d) ==
  LET res == DivStep(s, d, Len(s), 0) IN [q |-> Trim(res.q), r |-> res.r]

RECURSIVE AddCarry(_, _, _)
AddCarry(a, b, c) ==
  IF a = <<>> /\ b = <<>> THEN FromInt(c)
  ELSE LET x == (IF a = <<>> THEN 0 ELSE Head(a)) + (IF b = <<>> THEN 0 ELSE Head(b)) + c
       IN  <<x % Base>> \o AddCarry(IF a = <<>> THEN <<>> ELSE Tail(a),
                                    IF b = <<>> THEN <<>> ELSE Tail(b), x \div Base)

BigAdd(a, b) == AddCarry(a, b, 0)

RECURSIVE SubBorrow(_, _, _)
SubBorrow(a, b, c) ==
  IF a = <<>> THEN <<>>
  ELSE LET x == Head(a) - (IF b = <<>> THEN 0 ELSE Head(b)) - c
       IN  <<x % Base>> \o SubBorrow(Tail(a), IF b = <<>> THEN <<>> ELSE Tail(b),
                                     IF x < 0 THEN 1 ELSE 0)

\* a - b, for a >= b
BigSub(a, b) == Trim(SubBorrow(a, b, 0))

RECURSIVE CmpFrom(_, _, _)
CmpFrom(a, b, i) ==
  IF i = 0 THEN 0
  ELSE IF a[i] < b[i] THEN -1
  ELSE IF a[i] > b[i] THEN 1
  ELSE CmpFrom(a, b, i - 1)

\* -1, 0 or 1 as a < b, a = b or a > b
BigCmp(a, b) ==
  IF Len(a) < Len(b) THEN -1
  ELSE IF Len(a) > Len(b) THEN 1
  ELSE CmpFrom(a, b, Len(a))

\* s * 2^n
ShiftLeft(s, n) ==
  IF s = <<>> THEN <<>>
  ELSE [i \in 1..(n \div LimbBits) |-> 0] \o BigMulSmall(s, 2^(n % LimbBits))

\* s \div 2^n, and whether a dropped bit was 1
ShiftRight(s, n) ==
  LET limbs == n \div LimbBits
      high  == SubSeq(s, limbs + 1, Len(s))
      res   == BigDivSmall(high, 2^(n % LimbBits))
  IN  [q  |-> res.q,
       nz |-> res.r # 0 \/ \E i \in 1..limbs : i <= Len(s) /\ s[i] # 0]

Float(neg, m, e) == [kind |-> "fin", neg |-> neg, m |-> m, e |-> e]

Inf == [kind |-> "inf", neg |-> FALSE, m |-> <<>>, e |-> 0]

NegInf == [kind |-> "ninf", neg |-> TRUE, m |-> <<>>, e |-> 0]

NaNf == [kind |-> "nan", neg |-> FALSE, m |-> <<>>, e |-> 0]

IsNaNf(v) == v.kind = "nan"

IsFinite(v) == v.kind = "fin"

IsZero(v) == v.kind = "fin" /\ v.m = <<>>

\* The float nearest to (-1)^neg * (n + t) * 2^e, where 0 < t < 1 if sticky
\* and t = 0 otherwise; ties go to the even significand.
Round(neg, n, e, sticky) ==
  IF n = <<>> THEN Float(neg, <<>>, 0)
  ELSE IF BitLen(n) <= MantissaBits
  THEN Float(neg, ShiftLeft(n, MantissaBits - BitLen(n)), e - (MantissaBits - BitLen(n)))
  ELSE LET s     == BitLen(n) - MantissaBits
           sr    == ShiftRight(n, s - 1)
           guard == IsOdd(sr.q)
           m0    == BigDivSmall(sr.q, 2).q
           up    == guard /\ (sr.nz \/ sticky \/ IsOdd(m0))
           m1    == IF up THEN BigAdd(m0, <<1>>) ELSE m0
       IN  IF BitLen(m1) > MantissaBits
           THEN Float(neg, BigDivSmall(m1, 2).q, e + s + 1)
           ELSE Float(neg, m1, e + s)

Abs(x) == IF x < 0 THEN -x ELSE x

\* float(n) for an integer n
FloatOf(n) == Round(n < 0, FromInt(Abs(n)), 0, FALSE)

\* x / y for integers x and y (|y| < 2^18), as numpy divides: no exception
\* on y = 0.
TrueDiv(x, y) ==
  IF y = 0 THEN (IF x > 0 THEN Inf ELSE IF x < 0 THEN NegInf ELSE NaNf)
  ELSE LET k   == MantissaBits + 2 + BitLenInt(Abs(y))
           res == BigDivSmall(ShiftLeft(FromInt(Abs(x)), k), Abs(y))
       IN  Round((x < 0) # (y < 0), res.q, -k, res.r # 0)

\* v * k for a float v and an integer k, 0 < k < 2^17
Times(v, k) == IF IsFinite(v) THEN Round(v.neg, BigMulSmall(v.m, k), v.e, FALSE) ELSE v

\* a + b for finite a and b
PlusFinite(a, b) ==
  IF IsZero(a) THEN (IF IsZero(b) THEN Float(a.neg /\ b.neg, <<>>, 0) ELSE b)
  ELSE IF IsZero(b) THEN a
  ELSE IF a.e - b.e > MantissaBits + 11 THEN a
  ELSE IF b.e - a.e > MantissaBits + 11 THEN b
  ELSE LET e0 == IF a.e < b.e THEN a.e ELSE b.e
           x  == ShiftLeft(a.m, a.e - e0)
           y  == ShiftLeft(b.m, b.e - e0)
       IN  IF a.neg = b.neg THEN Round(a.neg, BigAdd(x, y), e0, FALSE)
           ELSE IF BigCmp(x, y) = 0 THEN Float(FALSE, <<>>, 0)
           ELSE IF BigCmp(x, y) > 0 THEN Round(a.neg, BigSub(x, y), e0, FALSE)
           ELSE Round(b.neg, BigSub(y, x), e0, FALSE)

\* a + b
Plus(a, b) ==
  IF IsNaNf(a) \/ IsNaNf(b) THEN NaNf
  ELSE IF a.kind = "inf" THEN (IF b.kind = "ninf" THEN NaNf ELSE Inf)
  ELSE IF a.kind = "ninf" THEN (IF b.kind = "inf" THEN NaNf ELSE NegInf)
  ELSE IF b.kind # "fin" THEN b
  ELSE PlusFinite(a, b)

\* -1, 0 or 1 as |a| < |b|, |a| = |b| or |a| > |b|, for finite a and b
MagCmp(a, b) ==
  IF IsZero(a) THEN (IF IsZero(b) THEN 0 ELSE -1)
  ELSE IF IsZero(b) THEN 1
  ELSE IF a.e < b.e THEN -1
  ELSE IF a.e > b.e THEN 1
  ELSE BigCmp(a.m, b.m)

Sign(v) == IF IsZero(v) THEN 0 ELSE IF v.neg THEN -1 ELSE 1

\* a <= b; every comparison with nan is false.
LessEq(a, b) ==
  /\ ~IsNaNf(a)
  /\ ~IsNaNf(b)
  /\ \/ a.kind = "ninf"
     \/ b.kind = "inf"
     \/ /\ IsFinite(a)
        /\ IsFinite(b)
        /\ \/ Sign(a) < Sign(b)
           \/ Sign(a) = Sign(b) /\ Sign(a) = 0
           \/ Sign(a) = Sign(b) /\ Sign(a) = 1 /\ MagCmp(a, b) <= 0
           \/ Sign(a) = Sign(b) /\ Sign(a) = -1 /\ MagCmp(a, b) >= 0

GreaterEq(a, b) == LessEq(b, a)

SameFloat(a, b) == LessEq(a, b) /\ LessEq(b, a)

(* ------------------------------ tables -------------------------------- *)

\* Header of the column at zero-based position k of the uploaded sheet.
ColName(k) == <<"c0", "c1", "c2", "c3", "c4", "c5", "c6", "c7", "c8", "c9", "c10">>[k + 1]

HasColumn(t, c) == \E k \in 1..Len(t.cols) : t.cols[k] = c

\* df[c] = vals: a new column is appended, an existing one overwritten.
SetColumn(t, c, vals) ==
  [cols |-> IF HasColumn(t, c) THEN t.cols ELSE Append(t.cols, c),
   rows |-> [i \in 1..Len(t.rows) |->
               [idx  |-> t.rows[i].idx,
                cell |-> [x \in DOMAIN t.rows[i].cell \cup {c} |->
                            IF x = c THEN vals[i] ELSE t.rows[i].cell[x]]]]]

\* df.drop(columns=S)
DropColumns(t, S) ==
  [cols |-> SelectSeq(t.cols, LAMBDA c : c \notin S),
   rows |-> [i \in 1..Len(t.rows) |->
               [idx  |-> t.rows[i].idx,
                cell |-> [x \in DOMAIN t.rows[i].cell \ S |-> t.rows[i].cell[x]]]]]

\* The == of two SKU cells: an empty cell equals nothing, itself included.
SameSku(a, b) == a # NaN /\ b # NaN /\ a = b

RECURSIVE SumSeq(_)
SumSeq(s) == IF s = <<>> THEN 0 ELSE Head(s) + SumSeq(Tail(s))

\* df[c].sum()
ColumnSum(t, c) == SumSeq([i \in 1..Len(t.rows) |-> t.rows[i].cell[c]])

(* ------------------------------ upload -------------------------------- *)

\* The sheet of n columns whose rows hold skus[r] at position 0, qtys[r] at
\* position 4, refs[r] at position 8 and the column position elsewhere.
Sheet(n, skus, qtys, refs) ==
  [cols |-> [k \in 1..n |-> ColName(k - 1)],
   rows |-> [r \in 1..Len(skus) |->
               [idx  |-> r - 1,
                cell |-> [x \in {ColName(k) : k \in 0..(n - 1)} |->
                            IF x = ColName(0) THEN skus[r]
                            ELSE IF x = ColName(4) THEN qtys[r]
                            ELSE IF x = ColName(8) THEN refs[r]
                            ELSE CHOOSE k \in 0..(n - 1) : ColName(k) = x]]]]

\* The uploaded sheets considered: 3 to MaxCols columns, 1 to MaxRows data rows,
\* SKUs that may be empty, quantities in QtyValues and position-8 values in
\* RefValues.
EmptyTable == [cols |-> <<>>, rows |-> <<>>]

NoSummary == [shown |-> FALSE, total_skus |-> 0, total_quantity |-> 0, focus_skus |-> <<>>]

Init ==
  /\ \E n \in ColCounts, m \in 1..MaxRows :
       \E skus \in [1..m -> SkuValues],
          qtys \in [1..m -> IF n > 4 THEN QtyValues ELSE {0}],
          refs \in [1..m -> IF n > 8 THEN RefValues ELSE {0}] :
         df = Sheet(n, skus, qtys, refs)
  /\ pc = 1
  /\ processed_df = df
  /\ sku_column = ""
  /\ quantity_column = ""
  /\ total_quantity = 0
  /\ warnings = {}
  /\ error = ""
  /\ summary = NoSummary

(* ------------------------------ step 1 -------------------------------- *)

\* columns[4] raises IndexError on a sheet of fewer than 5 columns.
CanResolveQuantity(t) == Len(t.cols) > 4

\* Mutant: the row's own quantity instead of the sum over its SKU.
TotalPerSKU_OwnRow(t, sku, qty, r) == r.cell[qty]

\* processed_df[processed_df[sku] == row[sku]][quantity].sum()
TotalPerSKU(t, sku, qty, r) ==
  SumSeq([i \in 1..Len(t.rows) |->
            IF SameSku(t.rows[i].cell[sku], r.cell[sku]) THEN t.rows[i].cell[qty] ELSE 0])

Step1_IndexError ==
  /\ pc = 1
  /\ ~CanResolveQuantity(processed_df)
  /\ error' = IndexErrorMessage(Len(processed_df.cols))
  /\ pc' = 12
  /\ sku_column' = processed_df.cols[1]
  /\ UNCHANGED <<df, processed_df, quantity_column, total_quantity, warnings, summary>>

Step1_TotalPerSKU ==
  /\ pc = 1
  /\ CanResolveQuantity(processed_df)
  /\ sku_column' = processed_df.cols[1]
  /\ quantity_column' = processed_df.cols[5]
  /\ processed_df' =
       SetColumn(processed_df, "Total_Quantity_Per_SKU",
                 [i \in 1..Len(processed_df.rows) |->
                    TotalPerSKU(processed_df, processed_df.cols[1], processed_df.cols[5],
                                processed_df.rows[i])])
  /\ pc' = 2
  /\ UNCHANGED <<df, total_quantity, warnings, error, summary>>

(* ------------------------------ step 2 -------------------------------- *)

Step2_CopyValues ==
  /\ pc = 2
  /\ processed_df' =
       SetColumn(processed_df, "Total_Quantity_Values",
                 [i \in 1..Len(processed_df.rows) |->
                    processed_df.rows[i].cell["Total_Quantity_Per_SKU"]])
  /\ pc' = 3
  /\ UNCHANGED <<df, sku_column, quantity_column, total_quantity, warnings, error, summary>>

(* ------------------------------ step 3 -------------------------------- *)

\* Mutant: the total taken over the rows that survive the empty-SKU drop.
TotalQuantity_AfterClean(t, qty) ==
  SumSeq([i \in 1..Len(t.rows) |->
            IF t.rows[i].cell[t.cols[1]] # NaN THEN t.rows[i].cell[qty] ELSE 0])

\* processed_df[quantity_column].sum()
TotalQuantity(t, qty) == ColumnSum(t, qty)

Step3_TotalQuantity ==
  /\ pc = 3
  /\ total_quantity' = TotalQuantity(processed_df, quantity_column)
  /\ pc' = 4
  /\ UNCHANGED <<df, processed_df, sku_column, quantity_column, warnings, error, summary>>

(* ------------------------------ step 4 -------------------------------- *)

\* processed_df.dropna(subset=[sku_column], how='any')
DropNa(t, sku) == [cols |-> t.cols, rows |-> SelectSeq(t.rows, LAMBDA r : r.cell[sku] # NaN)]

Step4_DropEmptyRows ==
  /\ pc = 4
  /\ processed_df' = DropNa(processed_df, sku_column)
  /\ pc' = 5
  /\ UNCHANGED <<df, sku_column, quantity_column, total_quantity, warnings, error, summary>>

(* ------------------------------ step 5 -------------------------------- *)

\* cols_to_drop: the columns at positions 3 and 4 of the table as it is now.
ColsToDrop(t) ==
  (IF Len(t.cols) > 4 THEN {t.cols[4]} ELSE {}) \cup
  (IF Len(t.cols) > 4 THEN {t.cols[5]} ELSE {})

Step5_DropColumns ==
  /\ pc = 5
  /\ processed_df' =
       DropColumns(DropColumns(processed_df, ColsToDrop(processed_df)),
                   {"Total_Quantity_Per_SKU"})
  /\ pc' = 6
  /\ UNCHANGED <<df, sku_column, quantity_column, total_quantity, warnings, error, summary>>

(* ------------------------------ step 6 -------------------------------- *)

\* Mutant: keep='last'.
KeptByDropDuplicates_Last(rows, sku, i) ==
  \A j \in (i + 1)..Len(rows) : rows[j].cell[sku] # rows[i].cell[sku]

\* drop_duplicates keeps a row unless an earlier row has the same SKU.
KeptByDropDuplicates(rows, sku, i) ==
  \A j \in 1..(i - 1) : rows[j].cell[sku] # rows[i].cell[sku]

RECURSIVE FilterIndexed(_, _, _, _)
FilterIndexed(rows, sku, i, acc) ==
  IF i > Len(rows) THEN acc
  ELSE FilterIndexed(rows, sku, i + 1,
                     IF KeptByDropDuplicates(rows, sku, i) THEN Append(acc, rows[i]) ELSE acc)

\* processed_df.drop_duplicates(subset=[sku_column])
DropDuplicates(t, sku) == [cols |-> t.cols, rows |-> FilterIndexed(t.rows, sku, 1, <<>>)]

Step6_DropDuplicates ==
  /\ pc = 6
  /\ processed_df' = DropDuplicates(processed_df, sku_column)
  /\ pc' = 7
  /\ UNCHANGED <<df, sku_column, quantity_column, total_quantity, warnings, error, summary>>

(* ------------------------------ step 7 -------------------------------- *)

\* len(processed_df.columns) > 6
HasColumnG(t) == Len(t.cols) > 6

\* Mutant: the reference column resolved at position 6 of the uploaded sheet.
ColumnG_OriginalPosition(t) == ColName(6)

\* column_g_name = processed_df.columns[6]
ColumnG(t) == t.cols[7]

\* processed_df[column_g_name] / total_quantity * 100
SkuVelocity(x, total) == Times(TrueDiv(x, total), Percent)

\* Mutant: the stage is skipped without a warning.
VelocitySkipped_Silent(w) == w

\* st.warning("Column G not found. SKU Velocity calculation skipped.")
VelocitySkipped(w) == w \cup {NoColumnGWarning}

Step7_Velocity ==
  /\ pc = 7
  /\ IF HasColumnG(processed_df)
     THEN /\ processed_df' =
               SetColumn(processed_df, "SKU_Velocity",
                         [i \in 1..Len(processed_df.rows) |->
                            SkuVelocity(processed_df.rows[i].cell[ColumnG(processed_df)],
                                        total_quantity)])
          /\ UNCHANGED warnings
     ELSE /\ warnings' = VelocitySkipped(warnings)
          /\ UNCHANGED processed_df
  /\ pc' = 8
  /\ UNCHANGED <<df, sku_column, quantity_column, total_quantity, error, summary>>

(* ------------------------------ step 8 -------------------------------- *)

Velocities(t) == [i \in 1..Len(t.rows) |-> t.rows[i].cell["SKU_Velocity"]]

\* rows is a reordering of t.rows that sort_values(ascending=False) with the
\* default kind (quicksort, not stable) and na_position='last' may return:
\* velocities descend, nan velocities come last in their old order, and the
\* order of rows with equal velocity is left to the sort.
IsSortOutcome(t, rows) ==
  /\ \A i \in 1..(Len(rows) - 1) :
       \/ GreaterEq(rows[i].cell["SKU_Velocity"], rows[i + 1].cell["SKU_Velocity"])
       \/ IsNaNf(rows[i + 1].cell["SKU_Velocity"])
  /\ \A i, j \in 1..Len(rows) :
       (i < j /\ IsNaNf(rows[i].cell["SKU_Velocity"]))
         => /\ IsNaNf(rows[j].cell["SKU_Velocity"])
            /\ rows[i].idx < rows[j].idx

SortOutcomes(t) ==
  {rows \in {[i \in 1..Len(t.rows) |-> t.rows[p[i]]] : p \in Permutations(1..Len(t.rows))} :
     IsSortOutcome(t, rows)}

Step8_Sort ==
  /\ pc = 8
  /\ IF HasColumn(processed_df, "SKU_Velocity")
     THEN \E rows \in SortOutcomes(processed_df) :
            processed_df' = [cols |-> processed_df.cols, rows |-> rows]
     ELSE UNCHANGED processed_df
  /\ pc' = 9
  /\ UNCHANGED <<df, sku_column, quantity_column, total_quantity, warnings, error, summary>>

(* ------------------------------ step 9 -------------------------------- *)

Zero == FloatOf(0)

\* The entry the running sum adds at position i: a nan counts as +0.0.
Filled(vs, i) == IF IsNaNf(vs[i]) THEN Zero ELSE vs[i]

\* The running sum starts from the first entry itself, for i >= 1.
RECURSIVE CumAcc(_, _)
CumAcc(vs, i) ==
  IF i = 1 THEN Filled(vs, 1)
  ELSE Plus(CumAcc(vs, i - 1), Filled(vs, i))

\* Series.cumsum(): nan entries add +0.0 to the running sum and stay nan.
Cumsum(vs) == [i \in 1..Len(vs) |-> IF IsNaNf(vs[i]) THEN NaNf ELSE CumAcc(vs, i)]

\* Mutant: strictly more than 200 units.
IsHighUnit_Strict(r) == r.cell["Total_Quantity_Values"] > HighUnitThreshold

\* processed_df['Total_Quantity_Values'] >= 200
IsHighUnit(r) == r.cell["Total_Quantity_Values"] >= HighUnitThreshold

\* processed_df['Cumulative_Percentage'] <= 80
IsVolume(r) == LessEq(r.cell["Cumulative_Percentage"], FloatOf(VolumeThreshold))

\* Focus_SKU starts False and is set True on the index of either selection.
FocusFlag(r) == IsHighUnit(r) \/ IsVolume(r)

WithCumulative(t) == SetColumn(t, "Cumulative_Percentage", Cumsum(Velocities(t)))

WithFocus(t) == SetColumn(t, "Focus_SKU", [i \in 1..Len(t.rows) |-> FocusFlag(t.rows[i])])

Step9_Focus ==
  /\ pc = 9
  /\ IF HasColumn(processed_df, "Total_Quantity_Values") /\ HasColumn(processed_df, "SKU_Velocity")
     THEN processed_df' = WithFocus(WithCumulative(processed_df))
     ELSE UNCHANGED processed_df
  /\ pc' = 10
  /\ UNCHANGED <<df, sku_column, quantity_column, total_quantity, warnings, error, summary>>

(* ------------------------------ summary ------------------------------- *)

\* focus_skus[[sku_column, 'Total_Quantity_Values', 'SKU_Velocity']]
FocusSkus(t, sku) ==
  IF HasColumn(t, "Focus_SKU")
  THEN [cols |-> <<sku, "Total_Quantity_Values", "SKU_Velocity">>,
        rows |-> [i \in 1..Len(SelectSeq(t.rows, LAMBDA r : r.cell["Focus_SKU"])) |->
                    [idx  |-> SelectSeq(t.rows, LAMBDA r : r.cell["Focus_SKU"])[i].idx,
                     cell |-> [x \in {sku, "Total_Quantity_Values", "SKU_Velocity"} |->
                                 SelectSeq(t.rows, LAMBDA r : r.cell["Focus_SKU"])[i].cell[x]]]]]
  ELSE EmptyTable

Summary ==
  /\ pc = 10
  /\ summary' = [shown          |-> TRUE,
                 total_skus     |-> Len(processed_df.rows),
                 total_quantity |-> total_quantity,
                 focus_skus     |-> FocusSkus(processed_df, sku_column)]
  /\ pc' = 11
  /\ UNCHANGED <<df, processed_df, sku_column, quantity_column, total_quantity, warnings, error>>

Next ==
  \/ Step1_IndexError
  \/ Step1_TotalPerSKU
  \/ Step2_CopyValues
  \/ Step3_TotalQuantity
  \/ Step4_DropEmptyRows
  \/ Step5_DropColumns
  \/ Step6_DropDuplicates
  \/ Step7_Velocity
  \/ Step8_Sort
  \/ Step9_Focus
  \/ Summary

Spec == Init /\ [][Next]_vars

(* ======================================================================= *)
(* Properties                                                               *)
(* ======================================================================= *)

Done == pc = 11

Failed == pc = 12

NCols == Len(df.cols)

InputRows == 1..Len(df.rows)

InputSku(i) == df.rows[i].cell[ColName(0)]

\* The quantity of an uploaded row; a sheet without position 4 has none.
InputQty(i) == IF NCols > 4 THEN df.rows[i].cell[ColName(4)] ELSE 0

\* The row of the uploaded sheet that a processed row with index label idx came from.
InputOf(r) == df.rows[r.idx + 1]

RECURSIVE QtyOver(_)
QtyOver(S) ==
  IF S = {} THEN 0
  ELSE LET i == CHOOSE x \in S : TRUE IN InputQty(i) + QtyOver(S \ {i})

\* Sum of the quantity column over every row of the uploaded sheet.
InputTotal == QtyOver(InputRows)

\* Sum of the quantity column over the uploaded rows whose SKU is s.
InputSkuTotal(s) == QtyOver({i \in InputRows : s # NaN /\ InputSku(i) = s})

\* Rows of the uploaded sheet that are the first with their (non-empty) SKU.
FirstOccurrences ==
  {i \in InputRows : InputSku(i) # NaN /\ \A j \in 1..(i - 1) : InputSku(j) # InputSku(i)}

Rows == processed_df.rows

RowNums == 1..Len(processed_df.rows)

Sku(i) == Rows[i].cell[ColName(0)]

Tqv(i) == Rows[i].cell["Total_Quantity_Values"]

Vel(i) == Rows[i].cell["SKU_Velocity"]

HasVelocity == HasColumn(processed_df, "SKU_Velocity")

HasFocus == HasColumn(processed_df, "Focus_SKU")

\* v is the float that x / total * 100 evaluates to, for total # 0.
IsQuotient(v, x, total) == v.kind = "fin" /\ v = Times(TrueDiv(x, total), 100)

\* v is what x / 0 * 100 evaluates to.
IsZeroDivision(v, x) ==
  v.kind = (IF x > 0 THEN "inf" ELSE IF x < 0 THEN "ninf" ELSE "nan")

IsRatio(v, x, total) == IF total = 0 THEN IsZeroDivision(v, x) ELSE IsQuotient(v, x, total)

(* ------------------------------- C1 ----------------------------------- *)

\* C1 as stated: with at least 7 columns and a non-zero total quantity, every
\* output row has a velocity, and it equals the row's value in the column at
\* position 6 of the uploaded sheet, divided by the total quantity, times 100.
C1_VelocityFromOriginalPosition6 ==
  (Done /\ NCols >= 7 /\ InputTotal # 0)
    => /\ HasVelocity
       /\ \A i \in RowNums : IsQuotient(Vel(i), InputOf(Rows[i]).cell[ColName(6)], InputTotal)

\* C1 amended: the reference column is the one at position 6 of the table as
\* it stands after steps 5 and 6 (positions 3 and 4 and Total_Quantity_Per_SKU
\* dropped).  With at least 8 columns and a non-zero total quantity the
\* velocity of every row is that value / total * 100: the per-SKU total
\* quantity for 8 columns, the value at position 8 of the uploaded sheet for
\* 9 or more.  With exactly 7 columns no velocity is computed.
C1_VelocityFromPosition6AfterDrops ==
  /\ (Done /\ NCols >= 8 /\ InputTotal # 0)
       => /\ HasVelocity
          /\ \A i \in RowNums :
               IsQuotient(Vel(i),
                          IF NCols = 8 THEN InputSkuTotal(Sku(i))
                          ELSE InputOf(Rows[i]).cell[ColName(8)],
                          InputTotal)
  /\ (Done /\ NCols = 7) => ~HasVelocity

C1_Witness ==
  /\ Done
  /\ NCols >= 9
  /\ InputTotal # 0
  /\ \E i \in RowNums : ~IsZero(Vel(i)) /\ InputOf(Rows[i]).cell[ColName(8)] = 40

(* ------------------------------- C2 ----------------------------------- *)

\* C2: on a sheet of fewer than 5 columns the run does not fail; it reports a
\* warning and returns the uploaded table with only the empty-SKU rows dropped.
C2_NarrowSheetDegradesGracefully ==
  (NCols < 5 /\ pc > 1)
    => /\ ~Failed
       /\ error = ""
       /\ (Done => /\ warnings # {}
                   /\ processed_df = DropNa(df, ColName(0)))

(* ------------------------------- C3 ----------------------------------- *)

\* C3: when the total quantity is 0 the run ends without a failure, reports
\* the condition, and no velocity or cumulative percentage of the output is
\* infinite or nan.
C3_ZeroTotalYieldsFiniteVelocity ==
  ((Done \/ Failed) /\ NCols >= 5 /\ InputTotal = 0)
    => /\ Done
       /\ warnings # {}
       /\ HasVelocity => \A i \in RowNums : IsFinite(Vel(i))
       /\ HasFocus => \A i \in RowNums : IsFinite(Rows[i].cell["Cumulative_Percentage"])

(* ------------------------------- C4 ----------------------------------- *)

RECURSIVE RunningSum(_)
RunningSum(i) == IF i = 1 THEN Vel(1) ELSE Plus(RunningSum(i - 1), Vel(i))

\* Row i lies within the rows whose running sum of velocity, taken down the
\* output in float arithmetic, is at most 80.  An infinite or nan term leaves
\* no running sum to compare.
InVolumePrefix(i) ==
  /\ \A j \in 1..i : Vel(j).kind = "fin"
  /\ LessEq(RunningSum(i), FloatOf(80))

\* C4: whenever the focus stage ran, a row is flagged exactly when its
\* Total_Quantity_Values is at least 200 or it lies in the prefix of the
\* output whose running cumulative velocity is at most 80; those rows form a
\* prefix, and the two rules apply independently.
C4_FocusIffHighUnitOrVolumePrefix ==
  (Done /\ HasFocus)
    => /\ \A i \in RowNums :
            Rows[i].cell["Focus_SKU"] <=> (Tqv(i) >= 200 \/ InVolumePrefix(i))
       /\ \A i, j \in RowNums : (i < j /\ InVolumePrefix(j)) => InVolumePrefix(i)

C4_Witness ==
  /\ Done
  /\ HasFocus
  /\ Len(Rows) >= 2
  /\ ~InVolumePrefix(1)
  /\ Tqv(1) >= 200
  /\ Rows[1].cell["Focus_SKU"]
  /\ ~Rows[2].cell["Focus_SKU"]

(* ------------------------------- C5 ----------------------------------- *)

\* C5: Total_Quantity_Values of every row is the sum of the quantity column
\* over all rows of the uploaded sheet with that row's SKU, the duplicates
\* removed later included; before deduplication rows of equal SKU carry the
\* same total.
C5_TotalValuesSumAllInputRowsOfSku ==
  (pc >= 3 /\ pc <= 11)
    => /\ \A i \in RowNums : Sku(i) # NaN => Tqv(i) = InputSkuTotal(Sku(i))
       /\ pc <= 6 => \A i, j \in RowNums : SameSku(Sku(i), Sku(j)) => Tqv(i) = Tqv(j)

C5_Witness ==
  /\ Done
  /\ \E i \in RowNums :
       /\ Tqv(i) = 200
       /\ InputOf(Rows[i]).cell[ColName(4)] = 100
       /\ Cardinality({k \in InputRows : InputSku(k) = Sku(i)}) = 2

(* ------------------------------- C6 ----------------------------------- *)

\* C6: total_quantity is the sum of the quantity column over every row of the
\* uploaded sheet, rows dropped later included; no later stage changes it; it
\* is the divisor of every velocity and the total the summary reports.
C6_TotalQuantityIsInputSum ==
  /\ (pc >= 4 /\ pc <= 11) => total_quantity = InputTotal
  /\ (Done /\ HasVelocity)
       => \A i \in RowNums : IsRatio(Vel(i), Rows[i].cell[processed_df.cols[7]], InputTotal)
  /\ Done => summary.shown /\ summary.total_quantity = InputTotal

C6_Witness ==
  /\ Done
  /\ HasVelocity
  /\ \E k \in InputRows : InputSku(k) = NaN /\ InputQty(k) > 0
  /\ \E k \in InputRows : k \notin FirstOccurrences /\ InputSku(k) # NaN /\ InputQty(k) > 0
  /\ \E i \in RowNums : Vel(i).kind = "fin" /\ ~IsZero(Vel(i))

(* ------------------------------- C7 ----------------------------------- *)

\* C7: the output holds no row with an empty SKU and no two rows with the
\* same SKU; the rows that survive are exactly the first rows, in input
\* order, of each distinct non-empty SKU of the uploaded sheet.
C7_OutputSkusUniqueFirstOccurrence ==
  (pc >= 7 /\ pc <= 11)
    => /\ \A i \in RowNums : Sku(i) # NaN
       /\ \A i, j \in RowNums : i # j => Sku(i) # Sku(j)
       /\ {Rows[i].idx + 1 : i \in RowNums} = FirstOccurrences
       /\ \A i \in RowNums : \A c \in DOMAIN InputOf(Rows[i]).cell \cap DOMAIN Rows[i].cell :
            Rows[i].cell[c] = InputOf(Rows[i]).cell[c]

C7_Witness ==
  /\ Done
  /\ Len(Rows) = 1
  /\ \E k \in InputRows : InputSku(k) = NaN
  /\ \E k \in InputRows : k \notin FirstOccurrences /\ InputSku(k) # NaN

(* ------------------------------- C8 ----------------------------------- *)

\* C8: after the velocity sort, rows of equal velocity stand in the order
\* they had before the sort (the order of their index labels).
C8_SortIsStable ==
  (pc >= 9 /\ pc <= 11 /\ HasVelocity)
    => \A i, j \in RowNums :
         (i < j /\ SameFloat(Vel(i), Vel(j))) => Rows[i].idx < Rows[j].idx

(* ------------------------------- C9 ----------------------------------- *)

\* C9: whenever the velocity stage ran, every adjacent pair of output rows
\* satisfies velocity[i] >= velocity[i+1].
C9_OutputSortedByVelocityDescending ==
  (pc >= 9 /\ pc <= 11 /\ HasVelocity)
    => \A i \in 1..(Len(Rows) - 1) : GreaterEq(Vel(i), Vel(i + 1))

(* ------------------------------- C10 ---------------------------------- *)

\* C10: on a sheet of 5 or 6 columns the run completes, warns that the
\* reference column is missing and returns the cleaned, deduplicated table in
\* its order before the sort, with Total_Quantity_Values and without
\* SKU_Velocity, Cumulative_Percentage or Focus_SKU.
C10_NoReferenceColumnSkipsRanking ==
  ((Done \/ Failed) /\ NCols >= 5 /\ NCols < 7)
    => /\ Done
       /\ error = ""
       /\ NoColumnGWarning \in warnings
       /\ processed_df.cols =
            SelectSeq(df.cols, LAMBDA c : c \notin {ColName(3), ColName(4)})
              \o <<"Total_Quantity_Values">>
       /\ \A i \in 1..(Len(Rows) - 1) : Rows[i].idx < Rows[i + 1].idx
       /\ {Rows[i].idx + 1 : i \in RowNums} = FirstOccurrences
       /\ summary.shown /\ summary.total_skus = Len(Rows) /\ summary.focus_skus = EmptyTable

C10_Witness ==
  /\ Done
  /\ NCols = 6
  /\ Len(Rows) = 2
  /\ Len(df.rows) = 3
  /\ NoColumnGWarning \in warnings
  /\ ~HasVelocity

====
